---- MODULE Spec2Model ----
(***************************************************************************)
(* Raster consistency validation of the Tadla Plain notebooks: the raster  *)
(* files on disk, the study boundary, and one action per notebook cell     *)
(* that validates, repairs or loads them.                                  *)
(*                                                                         *)
(* Samples are float32/float64 values.  Finite samples are integers; the   *)
(* IEEE specials and Python's None are encoded as the reserved integers    *)
(* NaN, PosInf, NegInf, FltMax and NONE, and every comparison the code     *)
(* makes goes through PyNe/PyEq/PyLt, which give NaN its IEEE meaning.     *)
(***************************************************************************)
EXTENDS Integers, Sequences, FiniteSets, TLC

\* ---------------------------------------------------------------- bounds
\* Number of years of the range(2017, 2024) series the model keeps: the
\* last NumYears years, so that the sample year 2023 is always one of them.
NumYears == 2
\* Largest number of deviations of the files on disk from the nominal layout.
MaxDefects == 2

\* ------------------------------------------------------ program constants
YEAR_END == 2024
YEAR == 2023
NODATA == -9999
BAND_COUNT == 12
MONTHS == 12
COVERAGE_MIN == 95
TARGET_CRS == "EPSG:26191"
EXPECTED_RES == <<10, -10>>

Years == (YEAR_END - NumYears)..(YEAR_END - 1)

\* ------------------------------------------------- value encodings (IEEE)
NaN == 99999
PosInf == 90000
NegInf == -90000
FltMax == 80000
NONE == 70000

IsNaN(v) == v = NaN
\* Python/NumPy `x != y` and `x == y` on floats (None compares unequal to any number).
PyNe(x, y) == IsNaN(x) \/ IsNaN(y) \/ x # y
PyEq(x, y) == ~PyNe(x, y)
\* `x < y` on floats: False whenever either side is NaN.
PyLt(x, y) == ~IsNaN(x) /\ ~IsNaN(y) /\ x < y

\* ------------------------------------------------------------ the files
REF == <<"REF", 0>>
CLAY == <<"CLAY", 0>>
DEM == <<"DEM", 0>>
NDVI(y) == <<"NDVI", y>>
CHIRPS(y) == <<"CHIRPS", y>>
ERA5(y) == <<"ERA5", y>>
ERA5D(y) == <<"ERA5D", y>>
BOUNDARY == <<"BOUNDARY", 0>>
NOFILE == <<"", 0>>

AnnualFamilies == {"NDVI", "CHIRPS", "ERA5", "ERA5D"}
Files == {REF, CLAY, DEM} \cup {<<d, y>> : d \in AnnualFamilies, y \in Years}

\* A raster file as rasterio/rioxarray see it: a, e, c, f are the affine
\* transform's pixel width, pixel height (negative: north up) and origin.
NominalFile(n) ==
  [exists |-> TRUE, crs |-> TARGET_CRS, a |-> 10, e |-> -10, c |-> 0, f |-> 20,
   width |-> 2, height |-> 1, count |-> n, nodata |-> NODATA,
   bands |-> [b \in 1..n |-> <<1, 1>>]]

NominalBoundary == [xmin |-> 2, xmax |-> 20, ymin |-> 12, ymax |-> 18]

NominalFs == [p \in Files |-> IF p \in {CLAY, DEM} THEN NominalFile(1) ELSE NominalFile(BAND_COUNT)]

\* ---------------------------------------------------------- deviations
SetBand(f, b, samples) ==
  IF b <= f.count THEN [f EXCEPT !.bands = [f.bands EXCEPT ![b] = samples]] ELSE f

ApplyKind(f, k) ==
  CASE k = "absent" -> [f EXCEPT !.exists = FALSE]
    [] k = "crs" -> [f EXCEPT !.crs = "EPSG:4326"]
    [] k = "res" -> [f EXCEPT !.a = 20, !.e = -20]
    [] k = "shift" -> [f EXCEPT !.c = 100]
    [] k = "nodata_none" -> [f EXCEPT !.nodata = NONE]
    [] k = "nodata_zero" -> [f EXCEPT !.nodata = 0]
    [] k = "nodata_nan" -> [f EXCEPT !.nodata = NaN]
    [] k = "b1_nan" -> SetBand(f, 1, <<NaN, 1>>)
    [] k = "b2_nan" -> SetBand(f, 2, <<1, NaN>>)
    [] k = "b1_inf" -> SetBand(f, 1, <<PosInf, 1>>)
    [] k = "b1_allnd" -> SetBand(f, 1, <<NODATA, NODATA>>)
    [] k = "b1_partnd" -> SetBand(f, 1, <<1, NODATA>>)
    [] k = "b1_big" -> SetBand(f, 1, <<1, 5000>>)
    [] k = "count11" -> [f EXCEPT !.count = 11, !.bands = SubSeq(f.bands, 1, 11)]
    [] k = "count13" -> [f EXCEPT !.count = 13,
                                  !.bands = [b \in 1..13 |-> IF b <= Len(f.bands) THEN f.bands[b]
                                                                ELSE <<1, 1>>]]
    [] k = "narrow" -> [f EXCEPT !.width = 1,
                                 !.bands = [b \in 1..f.count |-> SubSeq(f.bands[b], 1, 1)]]
    [] k = "tiny" -> [f EXCEPT !.width = 1, !.count = 1,
                               !.bands = <<SubSeq(f.bands[1], 1, 1)>>]
    [] OTHER -> f

KindOrder ==
  <<"absent", "crs", "res", "shift", "nodata_none", "nodata_zero", "nodata_nan",
    "b1_nan", "b2_nan", "b1_inf", "b1_allnd", "b1_partnd", "b1_big",
    "count11", "count13", "narrow", "tiny">>

RECURSIVE ApplyFrom(_, _, _)
ApplyFrom(f, ks, i) ==
  IF i > Len(KindOrder) THEN f
  ELSE ApplyFrom(IF KindOrder[i] \in ks THEN ApplyKind(f, KindOrder[i]) ELSE f, ks, i + 1)

ApplyBoundary(b, k) ==
  CASE k = "b_xout" -> [b EXCEPT !.xmin = 22, !.xmax = 40]
    [] k = "b_yout" -> [b EXCEPT !.ymin = 22, !.ymax = 28]
    [] k = "b_small" -> [b EXCEPT !.xmin = 12]
    [] OTHER -> b

BoundaryOrder == <<"b_xout", "b_yout", "b_small">>

RECURSIVE ApplyBoundaryFrom(_, _, _)
ApplyBoundaryFrom(b, ks, i) ==
  IF i > Len(BoundaryOrder) THEN b
  ELSE ApplyBoundaryFrom(IF BoundaryOrder[i] \in ks THEN ApplyBoundary(b, BoundaryOrder[i]) ELSE b,
                         ks, i + 1)

KindsOf(D, p) == {d[2] : d \in {x \in D : x[1] = p}}
FsWith(D) == [p \in Files |-> ApplyFrom(NominalFs[p], KindsOf(D, p), 1)]
BoundaryWith(D) == ApplyBoundaryFrom(NominalBoundary, KindsOf(D, BOUNDARY), 1)

\* The deviations each family of checks reads.
SpatialLayers == <<CLAY, DEM, NDVI(YEAR), CHIRPS(YEAR), ERA5(YEAR)>>
NodataLayers == <<CLAY, NDVI(YEAR), CHIRPS(YEAR), ERA5(YEAR), DEM>>
OverlapLayers == <<CLAY, NDVI(YEAR)>>
DatasetPaths == <<ERA5D(YEAR), CHIRPS(YEAR), NDVI(YEAR)>>
Range(s) == {s[i] : i \in 1..Len(s)}

SpatialUniverse ==
  (({REF} \cup Range(SpatialLayers)) \X {"absent", "crs", "res", "shift"})
NodataUniverse ==
  (Range(NodataLayers) \X {"absent", "nodata_none", "nodata_zero", "b1_nan",
                           "b1_allnd", "b1_partnd", "b1_big"})
    \cup ({BOUNDARY} \X {"b_xout", "b_yout"})
DatasetUniverse ==
  (Range(DatasetPaths) \X {"absent", "crs", "res", "shift", "narrow", "nodata_none",
                           "count11", "tiny", "b1_partnd", "b1_nan", "b2_nan"})
    \cup ({BOUNDARY} \X {"b_xout", "b_small"})
TemporalUniverse ==
  ({<<d, y>> : d \in AnnualFamilies, y \in Years} \X {"absent", "count11"})
    \cup ({NDVI(y) : y \in Years} \X {"count13"})
RepairUniverse ==
  {NDVI(y) : y \in Years} \X {"absent", "nodata_none", "nodata_nan", "b1_nan", "b2_nan",
                              "b1_inf", "b1_partnd"}

\* The sets of at most n deviations drawn from U.
RECURSIVE SubsetsUpTo(_, _)
SubsetsUpTo(U, n) ==
  IF n = 0 THEN {{}}
  ELSE LET S == SubsetsUpTo(U, n - 1) IN S \cup {D \cup {x} : D \in S, x \in U}

UpTo(U) == SubsetsUpTo(U, MaxDefects)

\* fs: the raster files on disk; boundary: the study boundary file;
\* out: what the last cell printed and returned; repaired: the NDVI files
\* fix_ndvi_nodata has rewritten at least once.
VARIABLES fs, boundary, out, repaired

vars == <<fs, boundary, out, repaired>>

\* What a cell leaves on the screen and in the kernel: the operation, its
\* argument, the exception that ended it ("none" if it returned), the file the
\* exception names, the findings printed in order, whether the closing
\* summary line was printed, and the value returned.
Output(op, arg, raised, path, findings, summary, result) ==
  [op |-> op, arg |-> arg, raised |-> raised, path |-> path, findings |-> findings,
   summary |-> summary, result |-> result]

Idle == Output("idle", <<>>, "none", NOFILE, <<>>, FALSE, <<>>)

Finding(kind, layer) == [kind |-> kind, layer |-> layer]

\* ------------------------------------------------ rasterio's dataset view
Res(src) == <<src.a, -src.e>>
Transform(src) == <<src.a, 0, src.c, 0, src.e, src.f>>
Bounds(src) ==
  [left |-> src.c, bottom |-> src.f + src.e * src.height,
   right |-> src.c + src.a * src.width, top |-> src.f]

\* ------------------------------------------- 1. validate_spatial_alignment
SpatialFindings(src, ref, layer) ==
  (IF src.crs # ref.crs THEN <<Finding("CRS mismatch", layer)>> ELSE <<>>)
  \o (IF Res(src) # Res(ref) THEN <<Finding("Resolution mismatch", layer)>> ELSE <<>>)
  \o (IF Transform(src) # Transform(ref) THEN <<Finding("Transform mismatch", layer)>> ELSE <<>>)

RECURSIVE SpatialScan(_, _, _, _)
SpatialScan(disk, ref, i, acc) ==
  IF i > Len(SpatialLayers)
  THEN Output("validate_spatial_alignment", REF, "none", NOFILE, acc, TRUE, i - 1)
  ELSE IF ~disk[SpatialLayers[i]].exists
       THEN Output("validate_spatial_alignment", REF, "RasterioIOError", SpatialLayers[i],
                   acc, FALSE, i - 1)
       ELSE SpatialScan(disk, ref, i + 1,
                        acc \o SpatialFindings(disk[SpatialLayers[i]], ref, SpatialLayers[i]))

validate_spatial_alignment(disk, reference_path) ==
  IF ~disk[reference_path].exists
  THEN Output("validate_spatial_alignment", reference_path, "RasterioIOError",
              reference_path, <<>>, FALSE, 0)
  ELSE SpatialScan(disk, disk[reference_path], 1, <<>>)

ValidateSpatialAlignment ==
  /\ out = Idle
  /\ out' = validate_spatial_alignment(fs, REF)
  /\ UNCHANGED <<fs, boundary, repaired>>

\* ---------------------------------------------- 2. validate_temporal_bands
TemporalPaths(year) == <<CHIRPS(year), ERA5(year)>>

TemporalPathFindings(disk, path) ==
  IF ~disk[path].exists THEN <<Finding("Missing", path)>>
  ELSE IF disk[path].count # 12 THEN <<Finding("bands", path)>>
  ELSE <<>>

\* Variant for C8: a scan whose `continue` is a `return`, so that the first
\* missing file ends the check.
RECURSIVE TemporalScanStopping(_, _, _, _)
TemporalScanStopping(disk, year, last, acc) ==
  IF year > last THEN acc
  ELSE IF ~disk[TemporalPaths(year)[1]].exists
  THEN acc \o TemporalPathFindings(disk, TemporalPaths(year)[1])
  ELSE IF ~disk[TemporalPaths(year)[2]].exists
  THEN acc \o TemporalPathFindings(disk, TemporalPaths(year)[1])
           \o TemporalPathFindings(disk, TemporalPaths(year)[2])
  ELSE TemporalScanStopping(disk, year + 1, last,
                            acc \o TemporalPathFindings(disk, TemporalPaths(year)[1])
                                \o TemporalPathFindings(disk, TemporalPaths(year)[2]))

RECURSIVE TemporalScan(_, _, _, _)
TemporalScan(disk, year, last, acc) ==
  IF year > last THEN acc
  ELSE TemporalScan(disk, year + 1, last,
                    acc \o TemporalPathFindings(disk, TemporalPaths(year)[1])
                        \o TemporalPathFindings(disk, TemporalPaths(year)[2]))

validate_temporal_bands(disk, first, last) ==
  Output("validate_temporal_bands", <<first, last>>, "none", NOFILE,
         TemporalScan(disk, first, last, <<>>), TRUE, <<>>)

\* The year ranges a caller passes: runs of consecutive years of the series.
YearRanges == {r \in Years \X Years : r[1] <= r[2]}
FullRange == <<YEAR_END - NumYears, YEAR_END - 1>>

ValidateTemporalBands ==
  /\ out = Idle
  /\ \E r \in YearRanges : out' = validate_temporal_bands(fs, r[1], r[2])
  /\ UNCHANGED <<fs, boundary, repaired>>

\* ------------------------------------------------------ NumPy reductions
RECURSIVE Select(_, _, _)
\* data[mask]: the samples of s that differ (!=) from v, in order.
Select(s, v, i) ==
  IF i > Len(s) THEN <<>>
  ELSE (IF PyNe(s[i], v) THEN <<s[i]>> ELSE <<>>) \o Select(s, v, i + 1)

Minimum(S) == CHOOSE x \in S : \A y \in S : x <= y
Maximum(S) == CHOOSE x \in S : \A y \in S : x >= y
NotNaN(s) == {s[i] : i \in {j \in 1..Len(s) : ~IsNaN(s[j])}}
\* np.nanmin / np.nanmax of a non-empty array: NaN when every sample is NaN.
nanmin(s) == IF NotNaN(s) = {} THEN NaN ELSE Minimum(NotNaN(s))
nanmax(s) == IF NotNaN(s) = {} THEN NaN ELSE Maximum(NotNaN(s))

\* np.nan_to_num(data, nan=-9999): NaN becomes -9999, the infinities become
\* the largest finite floats, every other sample is kept.
NanToNumSample(v) ==
  IF IsNaN(v) THEN NODATA
  ELSE IF v = PosInf THEN FltMax
  ELSE IF v = NegInf THEN -FltMax
  ELSE v
nan_to_num(data) == [i \in 1..Len(data) |-> NanToNumSample(data[i])]

\* --------------------------------------------------- 3. fix_ndvi_nodata
\* Variant for C5: a repair that also rescales what it reads, as the ERA5 sign
\* correction (data * -1) does.
fix_ndvi_nodata_rescaling(src) ==
  [src EXCEPT !.nodata = NODATA,
              !.bands = [src.bands EXCEPT
                           ![1] = [i \in 1..Len(src.bands[1]) |->
                                     IF IsNaN(src.bands[1][i]) THEN NODATA
                                     ELSE -src.bands[1][i]]]]

\* src.read(1); nan_to_num; src.nodata = -9999; src.write(data, 1).
fix_ndvi_nodata(src) ==
  [src EXCEPT !.nodata = NODATA,
              !.bands = [src.bands EXCEPT ![1] = nan_to_num(src.bands[1])]]

NdviPaths == {NDVI(y) : y \in Years}
RepairTargets(disk) == {p \in NdviPaths : disk[p].exists}

RECURSIVE RepairPrints(_, _, _)
RepairPrints(disk, year, last) ==
  IF year > last THEN <<>>
  ELSE (IF disk[NDVI(year)].exists THEN <<Finding("Updated", NDVI(year))>> ELSE <<>>)
       \o RepairPrints(disk, year + 1, last)

\* The driver loop of the cell: every NDVI year file that exists is repaired.
RepairNdviFiles ==
  /\ out = Idle
  /\ fs' = [p \in Files |-> IF p \in RepairTargets(fs) THEN fix_ndvi_nodata(fs[p]) ELSE fs[p]]
  /\ repaired' = repaired \cup RepairTargets(fs)
  \* result: the files this run rewrote that an earlier run had rewritten already
  /\ out' = Output("fix_ndvi_nodata", <<>>, "none", NOFILE,
                   RepairPrints(fs, YEAR_END - NumYears, YEAR_END - 1), FALSE,
                   repaired \cap RepairTargets(fs))
  /\ UNCHANGED boundary

\* ------------------------------------------------------- 4. validate_nodata
ExpectedRange(layer) ==
  CASE layer = CLAY -> <<0, 100>>
    [] layer = NDVI(YEAR) -> <<-1, 1>>
    [] layer = CHIRPS(YEAR) -> <<0, 500>>
    [] layer = ERA5(YEAR) -> <<0, 20>>
    [] layer = DEM -> <<0, 3500>>

ValidData(src) == Select(src.bands[1], src.nodata, 1)

NodataFindings(src, layer) ==
  IF PyNe(src.nodata, NODATA) THEN <<Finding("NoData", layer)>> ELSE <<>>

RangeFindings(src, layer) ==
  IF PyLt(nanmin(ValidData(src)), ExpectedRange(layer)[1])
     \/ PyLt(ExpectedRange(layer)[2], nanmax(ValidData(src)))
  THEN <<Finding("Range", layer)>> ELSE <<>>

RECURSIVE NodataScan(_, _, _)
NodataScan(disk, i, acc) ==
  IF i > Len(NodataLayers)
  THEN Output("validate_nodata", <<>>, "none", NOFILE, acc, TRUE, i - 1)
  ELSE LET layer == NodataLayers[i]
           src == disk[layer]
       IN IF ~src.exists
          THEN Output("validate_nodata", <<>>, "RasterioIOError", layer, acc, FALSE, i - 1)
          ELSE IF ValidData(src) = <<>>
          \* np.nanmin of an empty selection raises, after the NoData line is printed
          THEN Output("validate_nodata", <<>>, "ValueError", NOFILE,
                      acc \o NodataFindings(src, layer), FALSE, i - 1)
          ELSE NodataScan(disk, i + 1,
                          acc \o NodataFindings(src, layer) \o RangeFindings(src, layer))

validate_nodata(disk) == NodataScan(disk, 1, <<>>)

\* Variant for C19: a validate_nodata that opens the NDVI layer in 'r+' mode
\* and repairs it while validating.
ValidateNodataRepairing ==
  /\ out = Idle
  /\ out' = validate_nodata(fs)
  /\ fs' = [fs EXCEPT ![NDVI(YEAR)] = IF @.exists THEN fix_ndvi_nodata(@) ELSE @]
  /\ UNCHANGED <<boundary, repaired>>

ValidateNodata ==
  /\ out = Idle
  /\ out' = validate_nodata(fs)
  /\ UNCHANGED <<fs, boundary, repaired>>

\* --------------------------------------------- 5. validate_boundary_overlap
Centroid(b) == [x |-> (b.xmin + b.xmax) \div 2, y |-> (b.ymin + b.ymax) \div 2]

\* `not bounds.left <= x <= bounds.right and bounds.bottom <= y <= bounds.top`:
\* Python's `not` binds tighter than `and`.
CentroidFlagged(bounds, x, y) ==
  (~(bounds.left <= x /\ x <= bounds.right)) /\ (bounds.bottom <= y /\ y <= bounds.top)

\* (data != src.nodata).sum() / data.size * 100 < 95
ValidCount(src) == Len(Select(src.bands[1], src.nodata, 1))
LowCoverage(src) == ValidCount(src) * 100 < COVERAGE_MIN * Len(src.bands[1])

OverlapFindings(src, layer, x, y) ==
  (IF CentroidFlagged(Bounds(src), x, y) THEN <<Finding("Centroid", layer)>> ELSE <<>>)
  \o (IF LowCoverage(src) THEN <<Finding("Coverage", layer)>> ELSE <<>>)

RECURSIVE OverlapScan(_, _, _, _)
OverlapScan(disk, bnd, i, acc) ==
  IF i > Len(OverlapLayers)
  THEN Output("validate_boundary_overlap", <<>>, "none", NOFILE, acc, TRUE, i - 1)
  ELSE IF ~disk[OverlapLayers[i]].exists
       THEN Output("validate_boundary_overlap", <<>>, "RasterioIOError", OverlapLayers[i],
                   acc, FALSE, i - 1)
       ELSE OverlapScan(disk, bnd, i + 1,
                        acc \o OverlapFindings(disk[OverlapLayers[i]], OverlapLayers[i],
                                               Centroid(bnd).x, Centroid(bnd).y))

validate_boundary_overlap(disk, bnd) == OverlapScan(disk, bnd, 1, <<>>)

ValidateBoundaryOverlap ==
  /\ out = Idle
  /\ out' = validate_boundary_overlap(fs, boundary)
  /\ UNCHANGED <<fs, boundary, repaired>>

\* ------------------------------------------------------ 6. validate_dataset
\* rxr.open_rasterio(path, masked=True): samples equal to the declared NoData
\* read as NaN, and ds.rio.nodata is NaN when a NoData value is declared
\* (the declared value moves to the encoding) and None when none is.
MaskedSample(v, nodata) == IF nodata # NONE /\ PyEq(v, nodata) THEN NaN ELSE v
MaskedBands(src) ==
  [b \in 1..src.count |-> [i \in 1..Len(src.bands[b]) |-> MaskedSample(src.bands[b][i], src.nodata)]]
RioNodata(src) == IF src.nodata = NONE THEN NONE ELSE NaN
RioResolution(src) == <<src.a, src.e>>
RioShape(src) == <<src.height, src.width>>
RioBounds(src) == <<Bounds(src).left, Bounds(src).bottom, Bounds(src).right, Bounds(src).top>>

\* Pixel centres, doubled so that they stay integers: column j, row i (from 0).
CentreX2(src, j) == 2 * src.c + src.a * (2 * j + 1)
CentreY2(src, i) == 2 * src.f + src.e * (2 * i + 1)
Abs(n) == IF n < 0 THEN -n ELSE n
\* ds.sel(x=..., y=..., method="nearest"): the nearest centre on each axis.
NearestCol(src, x) ==
  CHOOSE j \in 0..(src.width - 1) :
    \A k \in 0..(src.width - 1) :
      \/ Abs(2 * x - CentreX2(src, j)) < Abs(2 * x - CentreX2(src, k))
      \/ (Abs(2 * x - CentreX2(src, j)) = Abs(2 * x - CentreX2(src, k)) /\ j >= k)
NearestRow(src, y) ==
  CHOOSE i \in 0..(src.height - 1) :
    \A k \in 0..(src.height - 1) :
      \/ Abs(2 * y - CentreY2(src, i)) < Abs(2 * y - CentreY2(src, k))
      \/ (Abs(2 * y - CentreY2(src, i)) = Abs(2 * y - CentreY2(src, k)) /\ i >= k)
SampleIndex(src, i, j) == i * src.width + j + 1
CentroidValue(src, bnd) ==
  MaskedBands(src)[1][SampleIndex(src, NearestRow(src, Centroid(bnd).y),
                                       NearestCol(src, Centroid(bnd).x))]

\* ds.rio.clip(tadla.geometry): the pixels whose centre lies in the boundary.
InsidePixels(src, bnd) ==
  {SampleIndex(src, i, j) : <<i, j>> \in
     {q \in (0..(src.height - 1)) \X (0..(src.width - 1)) :
        /\ 2 * bnd.xmin <= CentreX2(src, q[2]) /\ CentreX2(src, q[2]) <= 2 * bnd.xmax
        /\ 2 * bnd.ymin <= CentreY2(src, q[1]) /\ CentreY2(src, q[1]) <= 2 * bnd.ymax}}

RECURSIVE CountValid(_, _, _, _)
\* DataArray.count(): the samples that are not NaN, over bands b.. and pixels in P.
CountValid(bands, P, b, acc) ==
  IF b > Len(bands) THEN acc
  ELSE CountValid(bands, P, b + 1,
                  acc + Cardinality({i \in P : ~IsNaN(bands[b][i])}))

AllPixels(src) == 1..(src.width * src.height)
ClippedCount(src, bnd) == CountValid(MaskedBands(src), InsidePixels(src, bnd), 1, 0)
TotalCount(src) == CountValid(MaskedBands(src), AllPixels(src), 1, 0)
\* coverage_pct.mean() < 95, with 0/0 = NaN comparing False
InsufficientCoverage(src, bnd) ==
  TotalCount(src) # 0 /\ ClippedCount(src, bnd) * 100 < COVERAGE_MIN * TotalCount(src)

CentroidIsNodata(src, bnd) ==
  IsNaN(CentroidValue(src, bnd)) \/ PyEq(CentroidValue(src, bnd), NODATA)

DatasetIssues(src, bnd) ==
  (IF src.crs # TARGET_CRS THEN <<"CRS mismatch">> ELSE <<>>)
  \o (IF RioResolution(src) # EXPECTED_RES THEN <<"Resolution mismatch">> ELSE <<>>)
  \o (IF PyNe(RioNodata(src), NODATA) THEN <<"NoData mismatch">> ELSE <<>>)
  \o (IF src.count # BAND_COUNT THEN <<"Band count mismatch">> ELSE <<>>)
  \o (IF CentroidIsNodata(src, bnd) THEN <<"Centroid is NODATA">> ELSE <<>>)
  \o (IF InsufficientCoverage(src, bnd) THEN <<"Insufficient Tadla coverage">> ELSE <<>>)

\* What validate_dataset prints and returns: loaded is FALSE when it returns
\* None (the except branch), and then error is the exception it printed.
validate_dataset(disk, bnd, path) ==
  IF ~disk[path].exists
  THEN [loaded |-> FALSE, error |-> "RasterioIOError", path |-> path, issues |-> <<>>,
        status |-> "FAILED"]
  ELSE IF InsidePixels(disk[path], bnd) = {}
  THEN [loaded |-> FALSE, error |-> "NoDataInBounds", path |-> NOFILE, issues |-> <<>>,
        status |-> "FAILED"]
  ELSE [loaded |-> TRUE, error |-> "none", path |-> path,
        issues |-> DatasetIssues(disk[path], bnd),
        status |-> IF DatasetIssues(disk[path], bnd) = <<>> THEN "READY" ELSE "ISSUES"]

\* ------------------------------------------- 7. cross-dataset alignment check
\* bool(x) of what validate_dataset returned: None is falsy; a DataArray with
\* more than one element raises ValueError; one with a single element has the
\* truth value of that element (NaN is truthy).
Size(src) == src.count * src.height * src.width
TruthValue(disk, r) ==
  IF ~r.loaded THEN "false"
  ELSE IF Size(disk[r.path]) # 1 THEN "raise"
  ELSE IF MaskedBands(disk[r.path])[1][1] = 0 THEN "false" ELSE "true"

\* `era5 and chirps and ndvi`
AllTruthy(disk, rs) ==
  IF TruthValue(disk, rs[1]) # "true" THEN TruthValue(disk, rs[1])
  ELSE IF TruthValue(disk, rs[2]) # "true" THEN TruthValue(disk, rs[2])
  ELSE TruthValue(disk, rs[3])

SameExtent(e, c, n) == RioBounds(e) = RioBounds(c) /\ RioBounds(c) = RioBounds(n)
SameShape(e, c, n) == RioShape(e) = RioShape(c) /\ RioShape(c) = RioShape(n)
SameTransform(e, c, n) == Transform(e) = Transform(c) /\ Transform(c) = Transform(n)

Verdict(e, c, n) ==
  IF SameExtent(e, c, n) /\ SameShape(e, c, n) /\ SameTransform(e, c, n)
  THEN "ALIGNED" ELSE "MISALIGNED"

DatasetResults(disk, bnd) == [i \in 1..3 |-> validate_dataset(disk, bnd, DatasetPaths[i])]

RECURSIVE DatasetPrints(_, _)
DatasetPrints(rs, i) ==
  IF i > Len(rs) THEN <<>>
  ELSE (IF ~rs[i].loaded THEN <<Finding("Validation failed", rs[i].path)>>
        ELSE [k \in 1..Len(rs[i].issues) |-> Finding(rs[i].issues[k], rs[i].path)])
       \o DatasetPrints(rs, i + 1)

readiness_check(disk, bnd) ==
  LET rs == DatasetResults(disk, bnd)
      t == AllTruthy(disk, rs)
  IN Output("readiness_check", <<>>, IF t = "raise" THEN "ValueError" ELSE "none", NOFILE,
            DatasetPrints(rs, 1), FALSE,
            [datasets |-> rs,
             verdict |-> IF t = "true"
                         THEN Verdict(disk[DatasetPaths[1]], disk[DatasetPaths[2]],
                                      disk[DatasetPaths[3]])
                         ELSE "NONE"])

ReadinessCheck ==
  /\ out = Idle
  /\ out' = readiness_check(fs, boundary)
  /\ UNCHANGED <<fs, boundary, repaired>>

\* ------------------------------------------------ 8. temporal coherence check
CoherencePath(dataset, year) ==
  CASE dataset = "ERA5" -> ERA5D(year)
    [] dataset = "CHIRPS" -> CHIRPS(year)
    [] dataset = "NDVI" -> NDVI(year)

CoherenceDatasets == {"ERA5", "CHIRPS", "NDVI"}

BandCountOf(disk, path) == IF disk[path].exists THEN disk[path].count ELSE 0

CoherenceCounts(disk, year) ==
  [d \in CoherenceDatasets |-> BandCountOf(disk, CoherencePath(d, year))]

CoherenceStatus(counts) == \A d \in CoherenceDatasets : counts[d] = BAND_COUNT

temporal_coherence(disk) ==
  Output("temporal_coherence", <<>>, "none", NOFILE, <<>>, FALSE,
         [year \in Years |-> [counts |-> CoherenceCounts(disk, year),
                              ok |-> CoherenceStatus(CoherenceCounts(disk, year))]])

TemporalCoherence ==
  /\ out = Idle
  /\ out' = temporal_coherence(fs)
  /\ UNCHANGED <<fs, boundary, repaired>>

\* ------------------------------------------------------- 9. load_annual_data
\* A month as an integer: pd.date_range(f"{year}-01-01", periods=12, freq="MS").
Month(year, m) == year * MONTHS + (m - 1)
\* Variant for C20: date_range(..., periods=11).
YearTimesShort(year) == [m \in 1..(MONTHS - 1) |-> Month(year, m)]
YearTimes(year) == [m \in 1..MONTHS |-> Month(year, m)]

Variables == {"NDVI", "CHIRPS", "ERA5"}
AnnualPath(variable, year) ==
  CASE variable = "NDVI" -> NDVI(year)
    [] variable = "CHIRPS" -> CHIRPS(year)
    [] variable = "ERA5" -> ERA5(year)

\* Variant for C7: a loader that labels whatever bands the file holds, without
\* the length check of assign_coords.
YearLoadErrorUnchecked(src) ==
  IF ~src.exists THEN "RasterioIOError" ELSE "none"

\* What opening one year file and labelling its bands raises: open_rasterio
\* fails on a missing file, and assign_coords(band=times) refuses 12 labels
\* for a band dimension of any other length.
YearLoadError(src) ==
  IF ~src.exists THEN "RasterioIOError"
  ELSE IF src.count # MONTHS THEN "ValueError"
  ELSE "none"

\* One year of a series: band m of the file opened for the year, labelled
\* with the m-th timestamp generated for the year.
YearSteps(path, year) ==
  [m \in 1..Len(YearTimes(year)) |-> [time |-> YearTimes(year)[m], path |-> path, band |-> m]]
\* series.time.values
Times(series) == [i \in 1..Len(series) |-> series[i].time]

RECURSIVE LoadYears(_, _, _, _, _)
LoadYears(disk, variable, year, last, acc) ==
  IF year > last
  THEN Output("load_annual_data", <<variable, acc[1], last>>, "none", NOFILE, <<>>, FALSE, acc[2])
  ELSE IF YearLoadError(disk[AnnualPath(variable, year)]) # "none"
  THEN Output("load_annual_data", <<variable, acc[1], last>>,
              YearLoadError(disk[AnnualPath(variable, year)]),
              AnnualPath(variable, year), <<>>, FALSE, <<>>)
  ELSE LoadYears(disk, variable, year + 1, last,
                 <<acc[1], acc[2] \o YearSteps(AnnualPath(variable, year), year)>>)

\* The loop's first statement picks the path from the variable name; the
\* chunked definition ends the if/elif chain with `else: raise ValueError`.
load_annual_data(disk, variable, first, last) ==
  IF variable \notin Variables
  THEN Output("load_annual_data", <<variable, first, last>>, "ValueError", NOFILE,
              <<>>, FALSE, <<>>)
  ELSE LoadYears(disk, variable, first, last, <<first, <<>>>>)

\* The plain definition has no else branch: with any other name `path` is
\* never assigned and open_rasterio(path) raises UnboundLocalError.
load_annual_data_plain(disk, variable, first, last) ==
  IF variable \notin Variables
  THEN Output("load_annual_data", <<variable, first, last>>, "UnboundLocalError", NOFILE,
              <<>>, FALSE, <<>>)
  ELSE LoadYears(disk, variable, first, last, <<first, <<>>>>)

\* The Dask definition: the same chain, ending with `else: raise ValueError`.
load_annual_data_dask(disk, variable, first, last) ==
  IF variable \notin Variables
  THEN Output("load_annual_data", <<variable, first, last>>, "ValueError", NOFILE,
              <<>>, FALSE, <<>>)
  ELSE LoadYears(disk, variable, first, last, <<first, <<>>>>)

\* The names a caller passes: the three datasets and one that is none of them.
VariableArguments == Variables \cup {"LST"}

LoadAnnualData ==
  /\ out = Idle
  /\ \E variable \in VariableArguments, r \in YearRanges :
       \/ out' = load_annual_data(fs, variable, r[1], r[2])
       \/ out' = load_annual_data_plain(fs, variable, r[1], r[2])
       \/ out' = load_annual_data_dask(fs, variable, r[1], r[2])
  /\ UNCHANGED <<fs, boundary, repaired>>

\* expected_times.difference(ndvi.time.values), on the series the kernel holds
ExpectedTimes == {Month(y, m) : y \in Years, m \in 1..MONTHS}
missing_times(times) == ExpectedTimes \ Range(times)

MissingTimes ==
  /\ out.op = "load_annual_data"
  /\ out.raised = "none"
  /\ out.arg[1] = "NDVI"
  /\ out' = Output("missing_times", out.arg, "none", NOFILE, <<>>, FALSE,
                   Cardinality(missing_times(Times(out.result))))
  /\ UNCHANGED <<fs, boundary, repaired>>

\* ------------------------------------------------------------ 10. load_raster
\* rasterio.open raises RasterioIOError for a missing file and src.read raises
\* IndexError for a band the file does not have; neither is FileNotFoundError,
\* so both leave through `except Exception` as RuntimeError naming the path.
LoadRasterPaths == {DEM, NDVI(YEAR)}
LoadRasterBands == {NONE, 1, 13}

load_raster(disk, path, band) ==
  IF ~disk[path].exists
  THEN Output("load_raster", <<path, band>>, "RuntimeError", path, <<>>, FALSE, <<>>)
  ELSE IF band # NONE /\ band > disk[path].count
  THEN Output("load_raster", <<path, band>>, "RuntimeError", path, <<>>, FALSE, <<>>)
  ELSE Output("load_raster", <<path, band>>, "none", NOFILE, <<>>, FALSE,
              IF band # NONE THEN <<disk[path].bands[band]>> ELSE disk[path].bands)

LoadRaster ==
  /\ out = Idle
  /\ \E path \in LoadRasterPaths, band \in LoadRasterBands :
       out' = load_raster(fs, path, band)
  /\ UNCHANGED <<fs, boundary, repaired>>

\* --------------------------------------------------------- 12. validate_shapes
\* validate_shapes(dem, rainfall[0], evapotranspiration[0], ndvi[0]): the
\* first band of the arrays load_raster returned for the sample year.
ShapeArrays == <<DEM, CHIRPS(YEAR), ERA5(YEAR), NDVI(YEAR)>>
ArrayShape(src) == <<src.height, src.width>>

RECURSIVE ShapeScan(_, _)
ShapeScan(shapes, i) ==
  IF i > Len(shapes)
  THEN Output("validate_shapes", <<>>, "none", NOFILE, <<>>, FALSE, i - 1)
  ELSE IF shapes[i] # shapes[1]
  THEN Output("validate_shapes", <<>>, "ValueError", NOFILE, <<>>, FALSE, i - 1)
  ELSE ShapeScan(shapes, i + 1)

validate_shapes(shapes) == ShapeScan(shapes, 2)

\* The cell runs on the arrays the loading cells left in the kernel, so all
\* four files were read.
ValidateShapes ==
  /\ out = Idle
  /\ \A i \in 1..Len(ShapeArrays) : fs[ShapeArrays[i]].exists
  /\ out' = validate_shapes([i \in 1..Len(ShapeArrays) |-> ArrayShape(fs[ShapeArrays[i]])])
  /\ UNCHANGED <<fs, boundary, repaired>>

\* ------------------------------------------------- 11. ERA5 sign correction
\* data * -1 on float32 samples: NaN stays NaN, the infinities swap.
Negate(v) == IF IsNaN(v) THEN NaN ELSE -v
\* A band of the output that is never written reads as the NoData value the
\* copied metadata declares, or as 0 when it declares none.
Unwritten(src) ==
  [i \in 1..Len(src.bands[1]) |-> IF src.nodata = NONE THEN 0 ELSE src.nodata]
\* meta.update(count=12); bands 1..12 of the input are written with the sign
\* flipped, as far as the input has them.
sign_corrected(src) ==
  [src EXCEPT !.exists = TRUE,
              !.count = 12,
              !.bands = [b \in 1..12 |->
                           IF b <= src.count
                           THEN [i \in 1..Len(src.bands[b]) |-> Negate(src.bands[b][i])]
                           ELSE Unwritten(src)]]

\* The loop over the years: a missing input is skipped with a warning; an
\* input with fewer than 12 bands makes src.read(band) raise IndexError
\* after the output file has been created, which ends the loop.
RECURSIVE CorrectScan(_, _, _, _)
CorrectScan(disk, year, last, acc) ==
  IF year > last
  THEN [disk |-> disk, raised |-> "none", path |-> NOFILE, findings |-> acc]
  ELSE IF ~disk[ERA5(year)].exists
  THEN CorrectScan(disk, year + 1, last, acc \o <<Finding("Skipping", ERA5(year))>>)
  ELSE IF disk[ERA5(year)].count < 12
  THEN [disk |-> [disk EXCEPT ![ERA5D(year)] = sign_corrected(disk[ERA5(year)])],
        raised |-> "IndexError", path |-> ERA5(year), findings |-> acc]
  ELSE CorrectScan([disk EXCEPT ![ERA5D(year)] = sign_corrected(disk[ERA5(year)])],
                   year + 1, last, acc \o <<Finding("Processed", ERA5(year))>>)

correct_era5_sign(disk) == CorrectScan(disk, YEAR_END - NumYears, YEAR_END - 1, <<>>)

CorrectEra5Sign ==
  /\ out = Idle
  /\ fs' = correct_era5_sign(fs).disk
  /\ out' = Output("correct_era5_sign", <<>>, correct_era5_sign(fs).raised,
                   correct_era5_sign(fs).path, correct_era5_sign(fs).findings,
                   correct_era5_sign(fs).raised = "none", <<>>)
  /\ UNCHANGED <<boundary, repaired>>

\* ------------------------------------------------- 13. per-layer statistics
\* The statistics validate_nodata and validate_boundary_overlap compute from
\* band 1 of a layer: np.nanmin and np.nanmax of data[data != src.nodata]
\* (which raise ValueError on an empty selection) and the coverage
\* (data != src.nodata).sum() / data.size, kept as its two counts.
Statistics(data, nodata) ==
  IF Select(data, nodata, 1) = <<>>
  THEN [raised |-> "ValueError", min |-> NONE, max |-> NONE,
        valid |-> 0, size |-> Len(data)]
  ELSE [raised |-> "none", min |-> nanmin(Select(data, nodata, 1)),
        max |-> nanmax(Select(data, nodata, 1)),
        valid |-> Len(Select(data, nodata, 1)), size |-> Len(data)]

\* The ways of cutting n samples into consecutive tiles: the tile lengths.
RECURSIVE Tilings(_)
Tilings(n) ==
  IF n = 0 THEN {<<>>}
  ELSE UNION {{<<k>> \o t : t \in Tilings(n - k)} : k \in 1..n}

RECURSIVE Tiles(_, _, _)
Tiles(data, tiling, i) ==
  IF i > Len(tiling) THEN <<>>
  ELSE <<SubSeq(data, 1, tiling[i])>>
       \o Tiles(SubSeq(data, tiling[i] + 1, Len(data)), tiling, i + 1)

StatisticsLayers == {CLAY, NDVI(YEAR)}

\* The statistics of one layer, over the whole band and over each tile.
tile_statistics(src, layer, tiling) ==
  LET tiles == Tiles(src.bands[1], tiling, 1)
      per_tile == [i \in 1..Len(tiles) |-> Statistics(tiles[i], src.nodata)]
  IN Output("statistics", <<layer, tiling>>,
            IF \E i \in 1..Len(tiles) : per_tile[i].raised # "none"
            THEN "ValueError" ELSE "none",
            NOFILE, <<>>, FALSE,
            [whole |-> Statistics(src.bands[1], src.nodata), tiles |-> per_tile])

TileStatistics ==
  /\ out = Idle
  /\ \E layer \in StatisticsLayers :
       /\ fs[layer].exists
       /\ \E tiling \in Tilings(Len(fs[layer].bands[1])) :
            out' = tile_statistics(fs[layer], layer, tiling)
  /\ UNCHANGED <<fs, boundary, repaired>>

\* ------------------------------------------------ 14. era5_corrected reload
\* xr.concat([open_rasterio("D:/ERA5/ERA5_2023_reproj.tif").assign_coords(
\* band=date_range(f"{year}-01-01", ...)) for year in range(2017, 2024)]):
\* the path names the year 2023 whatever the year of the loop is.
RECURSIVE ReloadYears(_, _, _, _)
ReloadYears(disk, year, last, acc) ==
  IF year > last
  THEN Output("reload_era5_corrected", <<>>, "none", NOFILE, <<>>, FALSE, acc)
  ELSE IF YearLoadError(disk[ERA5D(YEAR)]) # "none"
  THEN Output("reload_era5_corrected", <<>>, YearLoadError(disk[ERA5D(YEAR)]),
              ERA5D(YEAR), <<>>, FALSE, <<>>)
  ELSE ReloadYears(disk, year + 1, last, acc \o YearSteps(ERA5D(YEAR), year))

reload_era5_corrected(disk) == ReloadYears(disk, YEAR_END - NumYears, YEAR_END - 1, <<>>)

ReloadEra5Corrected ==
  /\ out = Idle
  /\ out' = reload_era5_corrected(fs)
  /\ UNCHANGED <<fs, boundary, repaired>>

\* ------------------------------------------------------------ 15. spot_check
\* time_idx = (year - 2017) * 12 + month_idx, 2017 being the first year of
\* the series.
TimeIndex(year, month_idx) == (year - (YEAR_END - NumYears)) * 12 + month_idx

\* Variant for C29: an index counted from 1, as the band numbers are.
spot_check_one_based(da, year, month_idx) ==
  IF TimeIndex(year, month_idx) + 1 >= Len(da)
  THEN Output("spot_check", <<year, month_idx>>, "IndexError", NOFILE, <<>>, FALSE, <<>>)
  ELSE Output("spot_check", <<year, month_idx>>, "none", NOFILE, <<>>, FALSE,
              [time_idx |-> TimeIndex(year, month_idx) + 1,
               step |-> da[TimeIndex(year, month_idx) + 2]])

\* da.isel(time=time_idx): the time step at that 0-based position, IndexError
\* beyond the end of the series.
spot_check(da, year, month_idx) ==
  IF TimeIndex(year, month_idx) >= Len(da)
  THEN Output("spot_check", <<year, month_idx>>, "IndexError", NOFILE, <<>>, FALSE, <<>>)
  ELSE Output("spot_check", <<year, month_idx>>, "none", NOFILE, <<>>, FALSE,
              [time_idx |-> TimeIndex(year, month_idx),
               step |-> da[TimeIndex(year, month_idx) + 1]])

\* The cell runs on the series ndvi, chirps and era5 the loading cell left in
\* the kernel, each loaded with the default range of years.
SpotCheck ==
  /\ out.op = "load_annual_data"
  /\ out.raised = "none"
  /\ <<out.arg[2], out.arg[3]>> = FullRange
  /\ \E year \in Years, month_idx \in 0..(MONTHS - 1) :
       out' = spot_check(out.result, year, month_idx)
  /\ UNCHANGED <<fs, boundary, repaired>>

\* ------------------------------------------------------------- the kernel
CellDone ==
  /\ out # Idle
  /\ out' = Idle
  /\ UNCHANGED <<fs, boundary, repaired>>

InitWith(U) ==
  /\ \E D \in UpTo(U) : fs = FsWith(D) /\ boundary = BoundaryWith(D)
  /\ out = Idle
  /\ repaired = {}

InitSpatial == InitWith(SpatialUniverse)
InitNodata == InitWith(NodataUniverse)
InitDataset == InitWith(DatasetUniverse)
InitTemporal == InitWith(TemporalUniverse)
InitRepair == InitWith(RepairUniverse)

Init == InitSpatial \/ InitNodata \/ InitDataset \/ InitTemporal \/ InitRepair

Next ==
  \/ ValidateSpatialAlignment
  \/ ValidateTemporalBands
  \/ RepairNdviFiles
  \/ ValidateNodata
  \/ ValidateBoundaryOverlap
  \/ ReadinessCheck
  \/ TemporalCoherence
  \/ LoadAnnualData
  \/ MissingTimes
  \/ LoadRaster
  \/ CorrectEra5Sign
  \/ ValidateShapes
  \/ TileStatistics
  \/ ReloadEra5Corrected
  \/ SpotCheck
  \/ CellDone

Spec == Init /\ [][Next]_vars
SpecSpatial == InitSpatial /\ [][Next]_vars
SpecNodata == InitNodata /\ [][Next]_vars
SpecDataset == InitDataset /\ [][Next]_vars
SpecTemporal == InitTemporal /\ [][Next]_vars
SpecRepair == InitRepair /\ [][Next]_vars

\* ======================================================================
\* Properties
\* ======================================================================
Names(findings, kind) ==
  {findings[i].layer : i \in {j \in 1..Len(findings) : findings[j].kind = kind}}
CountOf(findings, kind, layer) ==
  Cardinality({j \in 1..Len(findings) : findings[j] = Finding(kind, layer)})
Present(layers) == {i \in 1..Len(layers) : fs[layers[i]].exists}

\* ------------------------------------------------------------------ C1
\* C1: after validate_spatial_alignment against an existing reference, a
\* CRS / resolution / transform mismatch finding names layer L exactly when
\* that attribute of L differs from the reference's, for every layer of the
\* pass that is on disk.
C1_MismatchFindingIffAttributeDiffers ==
  (out.op = "validate_spatial_alignment" /\ fs[REF].exists) =>
    \A i \in Present(SpatialLayers) :
      LET L == SpatialLayers[i] IN
        /\ (L \in Names(out.findings, "CRS mismatch")) <=> (fs[L].crs # fs[REF].crs)
        /\ (L \in Names(out.findings, "Resolution mismatch")) <=> (Res(fs[L]) # Res(fs[REF]))
        /\ (L \in Names(out.findings, "Transform mismatch"))
             <=> (Transform(fs[L]) # Transform(fs[REF]))

\* ------------------------------------------------------------------ C2
\* C2 (load_raster): an absent path makes load_raster raise, naming the path.
C2_LoadRasterReportsAbsent ==
  (out.op = "load_raster" /\ ~fs[out.arg[1]].exists) =>
    (out.raised # "none" /\ out.path = out.arg[1])

\* C2 (validate_temporal_bands): every absent year file of the range is
\* reported as missing, by path.
C2_TemporalBandsReportsAbsent ==
  out.op = "validate_temporal_bands" =>
    \A y \in out.arg[1]..out.arg[2] : \A k \in 1..2 :
      ~fs[TemporalPaths(y)[k]].exists =>
        TemporalPaths(y)[k] \in Names(out.findings, "Missing")

\* C2 (validate_dataset): every absent dataset is reported as failed, by path.
C2_DatasetReportsAbsent ==
  out.op = "readiness_check" =>
    \A i \in 1..Len(DatasetPaths) :
      ~fs[DatasetPaths[i]].exists =>
        DatasetPaths[i] \in Names(out.findings, "Validation failed")

\* C2 (NDVI repair loop): every absent NDVI year file is reported, by an
\* exception or a printed line that names it.
C2_RepairReportsAbsent ==
  out.op = "fix_ndvi_nodata" =>
    \A p \in NdviPaths :
      ~fs[p].exists =>
        \/ (out.raised # "none" /\ out.path = p)
        \/ \E j \in 1..Len(out.findings) : out.findings[j].layer = p

\* C2: no operation that is handed an absent file skips it silently: each of
\* load_raster, validate_temporal_bands, validate_dataset and the NDVI repair
\* loop raises or reports an error that identifies the path.
C2_AbsentFileNeverSkipped ==
  /\ C2_LoadRasterReportsAbsent
  /\ C2_TemporalBandsReportsAbsent
  /\ C2_DatasetReportsAbsent
  /\ C2_RepairReportsAbsent

\* ------------------------------------------------------------------ C3
CentroidOutside(src, bnd) ==
  \/ Centroid(bnd).x < Bounds(src).left \/ Centroid(bnd).x > Bounds(src).right
  \/ Centroid(bnd).y < Bounds(src).bottom \/ Centroid(bnd).y > Bounds(src).top

\* C3: validate_boundary_overlap flags a scanned raster exactly when the
\* boundary centroid lies outside the raster's bounding box in x or in y.
C3_CentroidFlaggedIffOutside ==
  out.op = "validate_boundary_overlap" =>
    \A i \in 1..out.result :
      (OverlapLayers[i] \in Names(out.findings, "Centroid"))
        <=> CentroidOutside(fs[OverlapLayers[i]], boundary)

\* ------------------------------------------------------------------ C4
Declared(src) == IF PyNe(src.nodata, NODATA) THEN 1 ELSE 0

\* C4: a pass of validate_nodata or validate_dataset records exactly one
\* NoData finding naming a layer whose declared NoData value is not -9999
\* (none declared included), and none for a layer that declares -9999.
C4_OneNodataFindingIffNotSentinel ==
  /\ out.op = "validate_nodata" =>
       \A i \in Present(NodataLayers) :
         CountOf(out.findings, "NoData", NodataLayers[i]) = Declared(fs[NodataLayers[i]])
  /\ out.op = "readiness_check" =>
       \A i \in Present(DatasetPaths) :
         out.result.datasets[i].loaded =>
           CountOf(out.findings, "NoData mismatch", DatasetPaths[i])
             = Declared(fs[DatasetPaths[i]])

\* ------------------------------------------------------------------ C5
\* C5: fix_ndvi_nodata is idempotent: a file it has rewritten once is left
\* unchanged, samples and NoData metadata alike, by every later step, a
\* second run of the repair included.
C5_RepairIdempotent == [][\A p \in repaired : fs'[p] = fs[p]]_vars

\* A second run of the repair over a file whose first run replaced a sample.
C5_RepairedTwice ==
  /\ out.op = "fix_ndvi_nodata"
  /\ \E p \in out.result : \E i \in 1..Len(fs[p].bands[1]) : fs[p].bands[1][i] = NODATA

\* ------------------------------------------------------------------ C6
\* C6: once fix_ndvi_nodata has run on a file, no sample of any band of the
\* file is NaN and the file declares -9999 as its NoData value.
C6_NoNaNAfterRepair ==
  \A p \in repaired :
    /\ fs[p].nodata = NODATA
    /\ \A b \in 1..fs[p].count : \A i \in 1..Len(fs[p].bands[b]) : ~IsNaN(fs[p].bands[b][i])

\* ------------------------------------------------------------------ C7
\* The months of a year file that its data does not hold.
AbsentMonthsOf(src) ==
  IF ~src.exists THEN MONTHS
  ELSE IF src.count < MONTHS THEN MONTHS - src.count
  ELSE 0

RECURSIVE AbsentMonths(_, _)
AbsentMonths(variable, year) ==
  IF year > YEAR_END - 1 THEN 0
  ELSE AbsentMonthsOf(fs[AnnualPath(variable, year)]) + AbsentMonths(variable, year + 1)

FullSeries(variable) == <<variable, FullRange[1], FullRange[2]>>

\* C7 as stated: when the NDVI series is built by load_annual_data over the
\* whole range from data in which k expected months are absent, the series
\* is built and its missing_times count is k.
C7_MissingCountEqualsAbsentMonths ==
  (\A y \in Years : fs[NDVI(y)].exists => fs[NDVI(y)].count <= MONTHS) =>
  /\ (out.op = "load_annual_data" /\ out.arg = FullSeries("NDVI")) =>
       /\ out.raised = "none"
       /\ Cardinality(missing_times(Times(out.result))) = AbsentMonths("NDVI", FullRange[1])
  /\ (out.op = "missing_times" /\ out.arg = FullSeries("NDVI")) =>
       out.result = AbsentMonths("NDVI", FullRange[1])

Complete(path) == fs[path].exists /\ fs[path].count = MONTHS

\* C7 amended: load_annual_data builds a series exactly when every year file
\* of the requested range exists and holds 12 bands (otherwise it raises),
\* and it labels the bands with the 12 months of each requested year; the
\* missing_times count is the number of expected timestamps that are not in
\* that index, 12 for each year of the series' range that was not requested.
C7_MissingCountIsUnrequestedMonths ==
  /\ (out.op = "load_annual_data" /\ out.arg[1] \in Variables) =>
       /\ (out.raised = "none")
            <=> \A y \in out.arg[2]..out.arg[3] : Complete(AnnualPath(out.arg[1], y))
       /\ out.raised = "none" =>
            Range(Times(out.result)) = {Month(y, m) : y \in out.arg[2]..out.arg[3], m \in 1..MONTHS}
  /\ out.op = "missing_times" =>
       out.result = MONTHS * Cardinality(Years \ (out.arg[2]..out.arg[3]))

\* A series built without one year of the range: its 12 months are counted.
C7_OneYearNotRequested ==
  /\ out.op = "missing_times"
  /\ out.result = MONTHS

\* ------------------------------------------------------------------ C8
Defective(path) == ~fs[path].exists \/ fs[path].count # BAND_COUNT

\* C8 as stated: for every year of the range and each of CHIRPS, ERA5 and
\* NDVI, validate_temporal_bands records a finding naming the year file
\* exactly when it is missing or does not hold 12 bands.
C8_FindingPerYearAndDataset ==
  out.op = "validate_temporal_bands" =>
    \A y \in out.arg[1]..out.arg[2] : \A p \in {CHIRPS(y), ERA5(y), NDVI(y)} :
      (\E j \in 1..Len(out.findings) : out.findings[j].layer = p) <=> Defective(p)

\* C8 amended: validate_temporal_bands records, for every year of its range
\* and each of CHIRPS and ERA5 (NDVI is not looked at), exactly one finding
\* when the year file is missing ("Missing") or does not hold 12 bands, and
\* none otherwise, whatever the state of the other files; the temporal
\* coherence check reports for every year and each of ERA5, CHIRPS and NDVI
\* the band count found (0 for a missing file) and passes the year exactly
\* when all three counts are 12.
C8_TemporalFindingsPerPair ==
  /\ out.op = "validate_temporal_bands" =>
       /\ \A y \in out.arg[1]..out.arg[2] : \A p \in {CHIRPS(y), ERA5(y)} :
            /\ CountOf(out.findings, "Missing", p) = IF fs[p].exists THEN 0 ELSE 1
            /\ CountOf(out.findings, "bands", p)
                 = IF fs[p].exists /\ fs[p].count # BAND_COUNT THEN 1 ELSE 0
       /\ \A j \in 1..Len(out.findings) :
            \E y \in out.arg[1]..out.arg[2] : out.findings[j].layer \in {CHIRPS(y), ERA5(y)}
  /\ out.op = "temporal_coherence" =>
       \A y \in Years :
         /\ \A d \in CoherenceDatasets :
              (out.result[y].counts[d] # BAND_COUNT) <=> Defective(CoherencePath(d, y))
         /\ out.result[y].ok <=> \A d \in CoherenceDatasets : ~Defective(CoherencePath(d, y))

\* A missing year file is reported and a later file is still checked and reported.
C8_MissingThenLaterFinding ==
  /\ out.op = "validate_temporal_bands"
  /\ \E i, j \in 1..Len(out.findings) :
       /\ i < j
       /\ out.findings[i].kind = "Missing"
       /\ out.findings[j].layer # out.findings[i].layer

\* ------------------------------------------------------------------ C9
AllLoaded(rs) == \A i \in 1..3 : rs[i].loaded

\* C9: whenever ERA5, CHIRPS and NDVI have all been loaded, the cross-dataset
\* check gives the "aligned" verdict exactly when bounds, shapes and
\* transforms are identical across the three, and the "misalignment"
\* verdict otherwise.
C9_VerdictIffIdentical ==
  (out.op = "readiness_check" /\ AllLoaded(out.result.datasets)) =>
    LET e == fs[DatasetPaths[1]]
        c == fs[DatasetPaths[2]]
        n == fs[DatasetPaths[3]]
        same == SameExtent(e, c, n) /\ SameShape(e, c, n) /\ SameTransform(e, c, n)
    IN /\ (out.result.verdict = "ALIGNED") <=> same
       /\ ~same => out.result.verdict = "MISALIGNED"

\* ----------------------------------------------------------------- C10
\* C10: a missing file ends the validation of its own layer only: in each
\* multi-layer pass every layer that is on disk is validated, the layers
\* listed after an absent one included.
C10_LaterLayersStillValidated ==
  /\ (out.op = "validate_spatial_alignment" /\ fs[REF].exists) =>
       (out.raised \in {"none", "RasterioIOError"} => Present(SpatialLayers) \subseteq 1..out.result)
  /\ out.op = "validate_nodata" =>
       (out.raised \in {"none", "RasterioIOError"} => Present(NodataLayers) \subseteq 1..out.result)
  /\ out.op = "validate_boundary_overlap" =>
       (out.raised \in {"none", "RasterioIOError"} => Present(OverlapLayers) \subseteq 1..out.result)
  /\ out.op = "readiness_check" =>
       \A i \in Present(DatasetPaths) : out.result.datasets[i].error # "RasterioIOError"

\* ----------------------------------------------------------------- C11
AllPresent(layers) == Present(layers) = 1..Len(layers)

\* C11: no finding other than a missing file stops a scan: when every layer
\* of a pass is on disk, the pass visits all its layers and ends without
\* raising, whatever mismatches the layers carry (a layer whose samples are
\* all NoData included).
C11_OnlyMissingFileStopsScan ==
  /\ (out.op = "validate_spatial_alignment" /\ fs[REF].exists /\ AllPresent(SpatialLayers)) =>
       (out.raised = "none" /\ out.result = Len(SpatialLayers))
  /\ out.op = "validate_temporal_bands" => out.raised = "none"
  /\ (out.op = "validate_nodata" /\ AllPresent(NodataLayers)) =>
       (out.raised = "none" /\ out.result = Len(NodataLayers))
  /\ (out.op = "validate_boundary_overlap" /\ AllPresent(OverlapLayers)) =>
       (out.raised = "none" /\ out.result = Len(OverlapLayers))

\* ----------------------------------------------------------------- C12
\* C12: only a missing file raises: on inputs that exist, load_raster,
\* validate_shapes and the validate_* passes end without an exception; a
\* band request beyond the file's bands and a shape mismatch between arrays
\* are reported, not raised.
C12_OnlyMissingFileRaises ==
  /\ (out.op = "load_raster" /\ fs[out.arg[1]].exists) => out.raised = "none"
  /\ out.op = "validate_shapes" => out.raised = "none"
  /\ (out.op = "validate_spatial_alignment" /\ fs[REF].exists /\ AllPresent(SpatialLayers)) =>
       out.raised = "none"
  /\ out.op = "validate_temporal_bands" => out.raised = "none"
  /\ (out.op = "validate_nodata" /\ AllPresent(NodataLayers)) => out.raised = "none"
  /\ (out.op = "validate_boundary_overlap" /\ AllPresent(OverlapLayers)) => out.raised = "none"

\* ----------------------------------------------------------------- C13
\* The finite samples of band 1 that are not the value v.
SamplesOtherThan(src, v) ==
  {src.bands[1][i] : i \in {j \in 1..Len(src.bands[1]) :
                              ~IsNaN(src.bands[1][j]) /\ src.bands[1][j] # v}}
OutOfRange(S, layer) ==
  \E x \in S : x < ExpectedRange(layer)[1] \/ x > ExpectedRange(layer)[2]

\* C13: validate_nodata emits a range warning for a layer exactly when a
\* sample that is not the layer's NoData value lies below the declared lower
\* bound or above the declared upper bound, for every layer on disk; a
\* sample equal to -9999 never causes the warning.
C13_RangeWarningIffOutOfRange ==
  out.op = "validate_nodata" =>
    \A i \in Present(NodataLayers) :
      LET L == NodataLayers[i] IN
        /\ (L \in Names(out.findings, "Range"))
             <=> OutOfRange(SamplesOtherThan(fs[L], fs[L].nodata), L)
        /\ (L \in Names(out.findings, "Range"))
             => OutOfRange(SamplesOtherThan(fs[L], NODATA), L)

\* ----------------------------------------------------------------- C14
\* The pixels of band 1 that are valid: neither NaN nor the declared NoData value.
ValidPixels(src) ==
  {i \in 1..Len(src.bands[1]) : ~IsNaN(src.bands[1][i]) /\ src.bands[1][i] # src.nodata}

\* C14: validate_boundary_overlap flags a layer for coverage exactly when
\* fewer than 95% of its pixels are valid, a NaN sample not counting as
\* valid; at 95% or more the layer is not flagged.
C14_CoverageFlagIffBelowThreshold ==
  out.op = "validate_boundary_overlap" =>
    \A i \in 1..out.result :
      LET L == OverlapLayers[i] IN
        (L \in Names(out.findings, "Coverage"))
          <=> (Cardinality(ValidPixels(fs[L])) * 100 < COVERAGE_MIN * Len(fs[L].bands[1]))

\* ----------------------------------------------------------------- C15
\* Samples of the pixels inside the boundary, over all bands: how many are
\* valid (neither NaN nor the declared NoData value), and how many there are.
ValidInside(src, bnd) == CountValid(MaskedBands(src), InsidePixels(src, bnd), 1, 0)
AllInside(src, bnd) == src.count * Cardinality(InsidePixels(src, bnd))
CoveredInside(src, bnd) == ValidInside(src, bnd) * 100 > COVERAGE_MIN * AllInside(src, bnd)

\* The verdict is READY when the issue list is empty.  validate_dataset
\* records "NoData mismatch" for every layer it loads (see C4), so the
\* layers that pass every other check are those whose list holds nothing else.
PassesAllButNodata(r) ==
  r.loaded /\ \A k \in 1..Len(r.issues) : r.issues[k] = "NoData mismatch"

CorrectMetadata(src, count) ==
  /\ src.exists
  /\ src.crs = TARGET_CRS
  /\ RioResolution(src) = EXPECTED_RES
  /\ Transform(src) = Transform(NominalFile(count))
  /\ src.nodata = NODATA
  /\ src.count = count

AllMetadataCorrect ==
  /\ \A p \in {REF, CLAY, DEM} : CorrectMetadata(fs[p], NominalFs[p].count)
  /\ \A p \in Files \ {REF, CLAY, DEM} : CorrectMetadata(fs[p], BAND_COUNT)

StructuralKinds ==
  {"CRS mismatch", "Resolution mismatch", "Transform mismatch", "Missing", "bands",
   "NoData", "NoData mismatch", "Band count mismatch"}

\* C16: when every layer has correct metadata (CRS EPSG:26191, resolution
\* (10, -10), the reference's transform, NoData -9999, 12 bands per year
\* file), validate_spatial_alignment, validate_temporal_bands,
\* validate_nodata and validate_dataset record no structural finding.
C16_NoStructuralFindingWhenCorrect ==
  (AllMetadataCorrect
     /\ out.op \in {"validate_spatial_alignment", "validate_temporal_bands",
                    "validate_nodata", "readiness_check"}) =>
    \A j \in 1..Len(out.findings) : out.findings[j].kind \notin StructuralKinds

\* ----------------------------------------------------------------- C17
Ind(b) == IF b THEN 1 ELSE 0
FindingsNaming(findings, layer) ==
  Cardinality({j \in 1..Len(findings) : findings[j].layer = layer})

\* How many checks of each pass fail on a layer.
SpatialFailures(src, ref) ==
  Ind(src.crs # ref.crs) + Ind(Res(src) # Res(ref)) + Ind(Transform(src) # Transform(ref))
NodataFailures(src, layer) ==
  Ind(PyNe(src.nodata, NODATA)) + Ind(OutOfRange(SamplesOtherThan(src, src.nodata), layer))
OverlapFailures(src, bnd) ==
  Ind(CentroidFlagged(Bounds(src), Centroid(bnd).x, Centroid(bnd).y)) + Ind(LowCoverage(src))
DatasetFailures(src, bnd) ==
  Ind(src.crs # TARGET_CRS) + Ind(RioResolution(src) # EXPECTED_RES)
    + Ind(PyNe(RioNodata(src), NODATA)) + Ind(src.count # BAND_COUNT)
    + Ind(CentroidIsNodata(src, bnd)) + Ind(InsufficientCoverage(src, bnd))

\* C17: checks are independent and findings accumulate: in every pass, a
\* layer on disk that fails n of the pass's checks gets n findings, one for
\* each failing check (validate_dataset's issue list holds every one of the
\* six issues that applies).
C17_OneFindingPerFailingCheck ==
  /\ (out.op = "validate_spatial_alignment" /\ fs[REF].exists) =>
       \A i \in Present(SpatialLayers) :
         FindingsNaming(out.findings, SpatialLayers[i])
           = SpatialFailures(fs[SpatialLayers[i]], fs[REF])
  /\ out.op = "validate_nodata" =>
       \A i \in Present(NodataLayers) :
         FindingsNaming(out.findings, NodataLayers[i])
           = NodataFailures(fs[NodataLayers[i]], NodataLayers[i])
  /\ out.op = "validate_boundary_overlap" =>
       \A i \in Present(OverlapLayers) :
         FindingsNaming(out.findings, OverlapLayers[i])
           = OverlapFailures(fs[OverlapLayers[i]], boundary)
  /\ out.op = "readiness_check" =>
       \A i \in Present(DatasetPaths) :
         Len(out.result.datasets[i].issues) = DatasetFailures(fs[DatasetPaths[i]], boundary)

\* ----------------------------------------------------------------- C18
\* The six conditions of the verdict, on the file as it is on disk.
SixConditionsHold(src, bnd) ==
  /\ src.crs = TARGET_CRS
  /\ RioResolution(src) = EXPECTED_RES
  /\ src.nodata = NODATA
  /\ src.count = BAND_COUNT
  /\ ~CentroidIsNodata(src, bnd)
  /\ ~InsufficientCoverage(src, bnd)

\* C18: for a layer it loads, validate_dataset gives the verdict READY FOR
\* TRAINING exactly when CRS, resolution, declared NoData and band count are
\* the expected ones, the sample at the boundary centroid is neither NaN nor
\* -9999 and coverage is at least 95%; otherwise the verdict is ISSUES.
C18_ReadyIffSixConditions ==
  out.op = "readiness_check" =>
    \A i \in 1..Len(DatasetPaths) :
      out.result.datasets[i].loaded =>
        /\ (out.result.datasets[i].status = "READY")
             <=> SixConditionsHold(fs[DatasetPaths[i]], boundary)
        /\ out.result.datasets[i].status \in {"READY", "ISSUES"}

\* ----------------------------------------------------------------- C19
ReadOnlyOps ==
  {"validate_spatial_alignment", "validate_temporal_bands", "validate_nodata",
   "validate_boundary_overlap", "readiness_check", "temporal_coherence",
   "load_raster", "load_annual_data", "missing_times", "validate_shapes",
   "statistics", "reload_era5_corrected", "spot_check"}

\* C19 as stated: raster files are mutated only by the NoData repair pass:
\* a step that changes a file is a run of fix_ndvi_nodata.
C19_OnlyRepairMutates == [][fs' # fs => out'.op = "fix_ndvi_nodata"]_vars

\* C19 amended: every validation and loading operation leaves the data and
\* metadata of every raster file unchanged; the NoData repair rewrites NDVI
\* year files only; the ERA5 sign correction writes the corrected copies
\* (D:/ERA5) only, leaving its inputs unchanged.
C19_WritersAndTheirFiles ==
  [][/\ out'.op \in ReadOnlyOps \cup {"idle"} => fs' = fs
     /\ out'.op = "fix_ndvi_nodata" => \A p \in Files \ NdviPaths : fs'[p] = fs[p]
     /\ out'.op = "correct_era5_sign" =>
          \A p \in Files \ {ERA5D(y) : y \in Years} : fs'[p] = fs[p]]_vars

\* A validation pass has run over files that the repair had rewritten.
C19_ValidatedAfterRepair ==
  /\ out.op = "validate_nodata"
  /\ NDVI(YEAR) \in repaired
  /\ out.raised = "none"

\* ----------------------------------------------------------------- C20
\* C20: the series load_annual_data returns for a range of years has 12
\* timestamps per year of the range (12 * NumYears for the whole range), one
\* per calendar month from January of the first year to December of the
\* last, January first in each year, each one month after the one before it:
\* strictly increasing, without gaps or duplicates.
C20_SeriesIsEveryMonthInOrder ==
  (out.op = "load_annual_data" /\ out.raised = "none") =>
    LET first == out.arg[2]
        last == out.arg[3]
        times == Times(out.result)
    IN /\ Len(times) = 12 * (last - first + 1)
       /\ out.arg = FullSeries(out.arg[1]) => Len(times) = 12 * NumYears
       /\ \A y \in first..last : times[12 * (y - first) + 1] = Month(y, 1)
       /\ times[Len(times)] = Month(last, 12)
       /\ \A i \in 1..(Len(times) - 1) : times[i + 1] = times[i] + 1

\* The NDVI series of the whole range has been loaded.
C20_FullSeriesLoaded ==
  /\ out.op = "load_annual_data"
  /\ out.raised = "none"
  /\ out.arg = FullSeries("NDVI")
  /\ Len(out.result) = 12 * NumYears

\* ---------------------------------------------------------------- C21
ValidationPasses ==
  {"validate_spatial_alignment", "validate_temporal_bands", "validate_nodata",
   "validate_boundary_overlap", "temporal_coherence"}

LayersOf(op) ==
  CASE op = "validate_spatial_alignment" -> SpatialLayers
    [] op = "validate_nodata" -> NodataLayers
    [] op = "validate_boundary_overlap" -> OverlapLayers

\* C21: every validation pass ends in one of two ways: it completes, having
\* visited every layer of its list (every year of its range), or it fails on
\* a file that is not on disk; it stops for no other reason.
C21_PassCompletesOrFailsOnMissingFile ==
  out.op \in ValidationPasses =>
    \/ /\ out.raised = "none"
       /\ out.op \in {"validate_spatial_alignment", "validate_nodata",
                      "validate_boundary_overlap"} => out.result = Len(LayersOf(out.op))
       /\ out.op = "temporal_coherence" => DOMAIN out.result = Years
    \/ /\ out.raised = "RasterioIOError"
       /\ ~fs[out.path].exists


\* ---------------------------------------------------------------- C22
\* Combining the statistics of two tiles: the minimum of the minima, the
\* maximum of the maxima, and the sums of the two coverage counts.
CombineStatistics(a, b) ==
  [raised |-> IF a.raised # "none" THEN a.raised ELSE b.raised,
   min |-> IF a.raised # "none" \/ b.raised # "none" THEN NONE
           ELSE nanmin(<<a.min, b.min>>),
   max |-> IF a.raised # "none" \/ b.raised # "none" THEN NONE
           ELSE nanmax(<<a.max, b.max>>),
   valid |-> a.valid + b.valid,
   size |-> a.size + b.size]

RECURSIVE FoldLeft(_, _)
FoldLeft(s, n) ==
  IF n = 1 THEN s[1] ELSE CombineStatistics(FoldLeft(s, n - 1), s[n])

RECURSIVE FoldRight(_, _)
FoldRight(s, i) ==
  IF i = Len(s) THEN s[i] ELSE CombineStatistics(s[i], FoldRight(s, i + 1))

C23_SummaryOnlyWithoutFindings ==
  (/\ out.op \in {"validate_spatial_alignment", "validate_temporal_bands",
                  "validate_nodata", "validate_boundary_overlap"}
   /\ out.summary)
    => out.findings = <<>>


\* ---------------------------------------------------------------- C24
\* C24: the ERA5 sign correction preserves NoData. For every year file it
\* processes and every band 1..12, a pixel whose input sample is the declared
\* NoData sentinel -9999 equals the output file's declared NoData value, every
\* other pixel is the negation of its input sample, and the input file is
\* left as it was.
C24_SignFlipPreservesNodata ==
  [][out'.op = "correct_era5_sign" =>
       \A y \in Years :
         Finding("Processed", ERA5(y)) \in Range(out'.findings) =>
           /\ fs'[ERA5(y)] = fs[ERA5(y)]
           /\ \A b \in 1..BAND_COUNT : \A i \in 1..Len(fs[ERA5(y)].bands[b]) :
                IF fs[ERA5(y)].nodata = NODATA /\ fs[ERA5(y)].bands[b][i] = NODATA
                THEN PyEq(fs'[ERA5D(y)].bands[b][i], fs'[ERA5D(y)].nodata)
                ELSE fs'[ERA5D(y)].bands[b][i] = Negate(fs[ERA5(y)].bands[b][i])]_vars


\* ---------------------------------------------------------------- C25
\* The year a file id belongs to.
YearOf(path) == path[2]

\* C25: in every series assembled from annual files, the time steps stamped
\* with the months of year Y hold bands read from the file of year Y.
C25_MonthsOfYearFromFileOfYear ==
  (out.op \in {"load_annual_data", "reload_era5_corrected"} /\ out.raised = "none") =>
    \A i \in 1..Len(out.result) : \A y \in Years :
      out.result[i].time \in Range(YearTimes(y)) => YearOf(out.result[i].path) = y


\* ---------------------------------------------------------------- C26
\* C26: fix_ndvi_nodata changes only not-a-number samples. Every sample of a
\* repaired file that was not NaN (a valid value, a -9999, an infinity) has
\* the value it had, and the file's CRS, transform, shape and band count are
\* what they were.
C26_RepairChangesOnlyNaN ==
  [][out'.op = "fix_ndvi_nodata" =>
       \A p \in RepairTargets(fs) :
         /\ fs'[p].crs = fs[p].crs
         /\ Transform(fs'[p]) = Transform(fs[p])
         /\ <<fs'[p].height, fs'[p].width, fs'[p].count>>
              = <<fs[p].height, fs[p].width, fs[p].count>>
         /\ \A b \in 1..fs[p].count : \A i \in 1..Len(fs[p].bands[b]) :
              ~IsNaN(fs[p].bands[b][i]) => fs'[p].bands[b][i] = fs[p].bands[b][i]]_vars


\* ---------------------------------------------------------------- C27
\* C27: after the three validate_dataset calls the cross-dataset check always
\* prints one of its two verdicts, also when a dataset failed validation
\* (validate_dataset returned None); and a dataset for which validate_dataset
\* recorded issues is not handed to the cross-dataset check.
C27_CrossCheckAlwaysYieldsVerdict ==
  out.op = "readiness_check" =>
    /\ out.raised = "none"
    /\ out.result.verdict \in {"ALIGNED", "MISALIGNED"}
    /\ \A i \in 1..Len(DatasetPaths) :
         out.result.datasets[i].status = "ISSUES" => ~out.result.datasets[i].loaded


\* ---------------------------------------------------------------- C28
\* C28: load_raster returns no data for an invalid request. With a band index
\* above the file's band count it raises an error naming the file; with a
\* missing path it raises FileNotFoundError ("Critical file missing"); any
\* other failure reaches the caller as a RuntimeError naming the path.
C28_LoadRasterErrors ==
  out.op = "load_raster" =>
    LET path == out.arg[1]
        band == out.arg[2]
    IN /\ ~fs[path].exists =>
            (out.raised = "FileNotFoundError" /\ out.path = path /\ out.result = <<>>)
       /\ (fs[path].exists /\ band # NONE /\ band > fs[path].count) =>
            (out.raised # "none" /\ out.path = path /\ out.result = <<>>)
       /\ out.raised \notin {"none", "FileNotFoundError"} =>
            (out.raised = "RuntimeError" /\ out.path = path /\ out.result = <<>>)


\* ---------------------------------------------------------------- C29
\* C29: on a series loaded for the whole range of years, spot_check(da, year,
\* month_idx) selects the time step stamped with the first day of month
\* month_idx + 1 of that year; the index it computes lies within the series,
\* and no other (year, month_idx) pair computes the same index.
C29_SpotCheckSelectsMonth ==
  out.op = "spot_check" =>
    /\ out.raised = "none"
    /\ out.result.time_idx \in 0..(MONTHS * NumYears - 1)
    /\ out.result.step.time = Month(out.arg[1], out.arg[2] + 1)
    /\ \A y \in Years : \A m \in 0..(MONTHS - 1) :
         TimeIndex(y, m) = out.result.time_idx => <<y, m>> = out.arg

\* December of the last year has been spot-checked.
C29_LastMonthChecked ==
  /\ out.op = "spot_check"
  /\ out.arg = <<YEAR_END - 1, MONTHS - 1>>
  /\ out.raised = "none"
  /\ out.result.time_idx = MONTHS * NumYears - 1


\* ---------------------------------------------------------------- C30
\* C30: every definition of load_annual_data, called with a variable name
\* other than NDVI, CHIRPS or ERA5, raises ValueError before it opens any
\* file, and returns no series.
C30_UnknownVariableRaisesValueError ==
  (out.op = "load_annual_data" /\ out.arg[1] \notin Variables) =>
    /\ out.raised = "ValueError"
    /\ out.path = NOFILE
    /\ out.result = <<>>

====
